---- MODULE Spec2Model ----
(***************************************************************************)
(* A model of the three scripts of the repository:                         *)
(*   - numero_factura_provincia.py : parse_fecha_universal, procesar_datos, *)
(*     filtrar_fecha, filtrar_provincia and the main menu loop;            *)
(*   - codigo_busca_prov.py : parsear_fecha, leer_csv, normalizar_afip,     *)
(*     normalizar_mercado, cargar_todo, the filters and menu();            *)
(*   - balance.py : cargar_reglas, limpiar_linea, clasificar_lineas_texto.  *)
(*                                                                         *)
(* A text is a sequence of one-character strings, so that strip, lower,    *)
(* replace, split, the regular expressions and strptime are computed on    *)
(* characters.  The accented letters of the class [a-z\'a\'e\'i\'o\'u] are *)
(* the tokens "a_ac", "e_ac", "i_ac", "o_ac", "u_ac".                       *)
(***************************************************************************)
EXTENDS Naturals, Integers, Sequences, FiniteSets, TLC

VARIABLES
    fuente,     \* the description the input text was written from
    entrada,    \* the input text handed to the date parsers
    fecha_u,    \* what parse_fecha_universal(entrada) gave
    fecha_p,    \* what parsear_fecha(entrada) gave
    \* balance.py, main()
    filas,      \* the rows of the rule table (df)
    reglas,     \* what cargar_reglas returned
    paginas,    \* what extraer_texto_pdf returned: <<number, text>> per page
    resultados, \* what clasificar_lineas_texto returned
    pc_bal,     \* where main() is
    \* codigo_busca_prov.py, menu()
    disco,      \* the two CSV files on disk: [afip, ml], each a list of lines
    datos,      \* the list menu() keeps
    pc_busca,   \* where menu() is: "menu" reading a choice, "fin" after break
    op,         \* the last choice read
    pantalla,   \* what the last choice printed: messages and the list shown
    exportado,  \* the rows the last exportar_csv wrote
    afip_raw,   \* cargar_todo's afip_raw, of the last load
    ml_raw,     \* cargar_todo's ml_raw, of the last load
    ml_provincias \* cargar_todo's ml_provincias, of the last load

varsFecha == <<fuente, entrada, fecha_u, fecha_p>>

varsBalance == <<filas, reglas, paginas, resultados, pc_bal>>

varsBusca == <<disco, datos, pc_busca, op, pantalla, exportado, afip_raw, ml_raw,
               ml_provincias>>

\* numero_factura_provincia.py: the two files on disk, the module's globals
\* datos and datos_filtrados, the option read, what was printed last, where the
\* program is and the exception that ended it
VARIABLES archivos, unificados, datos_filtrados, op_nf, desde, hasta, impreso,
          pc_nf, error_nf

varsFacturas ==
    <<archivos, unificados, datos_filtrados, op_nf, desde, hasta, impreso, pc_nf,
      error_nf>>

vars == <<varsFecha, varsBalance, varsBusca, varsFacturas>>

(***************************************************************************)
(* Characters                                                              *)
(***************************************************************************)
DigitSeq == <<"0","1","2","3","4","5","6","7","8","9">>

Digit == {DigitSeq[i] : i \in 1..10}

LowerSeq == <<"a","b","c","d","e","f","g","h","i","j","k","l","m",
              "n","o","p","q","r","s","t","u","v","w","x","y","z">>

UpperSeq == <<"A","B","C","D","E","F","G","H","I","J","K","L","M",
              "N","O","P","Q","R","S","T","U","V","W","X","Y","Z">>

AsciiLower == {LowerSeq[i] : i \in 1..26}

AsciiUpper == {UpperSeq[i] : i \in 1..26}

\* [a-z\'a\'e\'i\'o\'u] of the long-form pattern
Letter == AsciiLower \cup {"a_ac", "e_ac", "i_ac", "o_ac", "u_ac"}

\* \s
Space == {" ", "\t"}

\* [\/\-.] of the numeric pattern
DateSep == {"/", "-", "."}

\* \w, for the \b of the suffix pattern
WordChar == Letter \cup AsciiUpper \cup Digit \cup {"_"}

AnyChar == WordChar \cup Space \cup DateSep \cup {":", ","}

DigitVal(c) == (CHOOSE i \in 1..10 : DigitSeq[i] = c) - 1

LowerChar(c) ==
    IF c \in AsciiUpper
    THEN LowerSeq[CHOOSE i \in 1..26 : UpperSeq[i] = c]
    ELSE c

UpperChar(c) ==
    IF c \in AsciiLower
    THEN UpperSeq[CHOOSE i \in 1..26 : LowerSeq[i] = c]
    ELSE c

SetMax(S) == CHOOSE m \in S : \A n \in S : n <= m

SetMin(S) == CHOOSE m \in S : \A n \in S : m <= n

(***************************************************************************)
(* str methods                                                             *)
(***************************************************************************)
Lower(s) == [i \in 1..Len(s) |-> LowerChar(s[i])]

Upper(s) == [i \in 1..Len(s) |-> UpperChar(s[i])]

Slice(s, from, to) == IF from > to THEN <<>> ELSE SubSeq(s, from, to)

\* s.strip()
Strip(s) ==
    LET keep == {i \in 1..Len(s) : s[i] \notin Space}
    IN  IF keep = {} THEN <<>> ELSE Slice(s, SetMin(keep), SetMax(keep))

StartsAt(s, pos, lit) ==
    /\ pos + Len(lit) - 1 <= Len(s)
    /\ \A j \in 1..Len(lit) : s[pos + j - 1] = lit[j]

\* s.replace(old, new), old not empty: left to right, not overlapping
RECURSIVE ReplaceFrom(_, _, _, _)
ReplaceFrom(s, pos, old, new) ==
    IF pos > Len(s) THEN <<>>
    ELSE IF StartsAt(s, pos, old)
         THEN new \o ReplaceFrom(s, pos + Len(old), old, new)
         ELSE <<s[pos]>> \o ReplaceFrom(s, pos + 1, old, new)

Replace(s, old, new) == ReplaceFrom(s, 1, old, new)

\* s.split(): the maximal runs of characters that are not whitespace
RECURSIVE SplitFrom(_, _)
SplitFrom(s, pos) ==
    IF pos > Len(s) THEN <<>>
    ELSE IF s[pos] \in Space THEN SplitFrom(s, pos + 1)
    ELSE LET stops == {j \in pos..Len(s) : s[j] \in Space}
             fin   == IF stops = {} THEN Len(s) ELSE SetMin(stops) - 1
         IN  <<Slice(s, pos, fin)>> \o SplitFrom(s, fin + 1)

Split(s) == SplitFrom(s, 1)

\* " ".join(parts)
RECURSIVE JoinSpace(_)
JoinSpace(parts) ==
    IF Len(parts) = 0 THEN <<>>
    ELSE IF Len(parts) = 1 THEN parts[1]
    ELSE parts[1] \o <<" ">> \o JoinSpace(Tail(parts))

AllDigits(s) == Len(s) > 0 /\ \A i \in 1..Len(s) : s[i] \in Digit

\* int(s) of a text of digits
RECURSIVE ToInt(_)
ToInt(s) ==
    IF Len(s) = 0 THEN 0
    ELSE 10 * ToInt(Slice(s, 1, Len(s) - 1)) + DigitVal(s[Len(s)])

\* str(n), n >= 0
RECURSIVE IntToStr(_)
IntToStr(n) ==
    IF n < 10 THEN <<DigitSeq[n + 1]>>
    ELSE IntToStr(n \div 10) \o <<DigitSeq[(n % 10) + 1]>>

(***************************************************************************)
(* re: the patterns of the scripts are sequences of greedy items, matched  *)
(* with backtracking as re does: an item takes the longest run its class    *)
(* and bounds allow and gives back one character at a time while the rest   *)
(* of the pattern fails; an optional literal is tried present, then absent. *)
(***************************************************************************)
Cls(cls, min, max, g) ==
    [t |-> "cls", cls |-> cls, min |-> min, max |-> max, lit |-> <<>>, g |-> g]

OptLit(lit) ==
    [t |-> "opt", cls |-> {}, min |-> 0, max |-> 1, lit |-> lit, g |-> 0]

Lit(lit) ==
    [t |-> "lit", cls |-> {}, min |-> 1, max |-> 1, lit |-> lit, g |-> 0]

\* $ (and the end a full match needs)
AtEnd == [t |-> "end", cls |-> {}, min |-> 0, max |-> 0, lit |-> <<>>, g |-> 0]

\* the max of + and *
Unbounded == -1

NGroups == 7

NoCaps == [g \in 1..NGroups |-> <<>>]

NoMatch == [ok |-> FALSE, end |-> 0, caps |-> NoCaps]

\* how many characters of cls follow from pos, at most max
RunLen(s, pos, cls, max) ==
    LET left  == Len(s) - pos + 1
        room  == IF max = Unbounded \/ left < max THEN left ELSE max
        stops == {n \in 0..(room - 1) : s[pos + n] \notin cls}
    IN  IF stops = {} THEN room ELSE SetMin(stops)

RECURSIVE ReMatch(_, _, _, _, _)
ReMatch(pat, k, s, pos, caps) ==
    IF k > Len(pat) THEN [ok |-> TRUE, end |-> pos, caps |-> caps]
    ELSE LET it == pat[k] IN
      CASE it.t = "cls" ->
             LET run  == RunLen(s, pos, it.cls, it.max)
                 with(n) == IF it.g = 0 THEN caps
                            ELSE [caps EXCEPT ![it.g] = Slice(s, pos, pos + n - 1)]
                 rest == [n \in it.min..run |->
                             ReMatch(pat, k + 1, s, pos + n, with(n))]
                 good == {n \in it.min..run : rest[n].ok}
             IN  IF good = {} THEN NoMatch ELSE rest[SetMax(good)]
        [] it.t = "opt" ->
             LET present == IF StartsAt(s, pos, it.lit)
                            THEN ReMatch(pat, k + 1, s, pos + Len(it.lit), caps)
                            ELSE NoMatch
             IN  IF present.ok THEN present
                 ELSE ReMatch(pat, k + 1, s, pos, caps)
        [] it.t = "end" ->
             IF pos = Len(s) + 1 THEN ReMatch(pat, k + 1, s, pos, caps)
             ELSE NoMatch
        [] OTHER ->
             IF StartsAt(s, pos, it.lit)
             THEN ReMatch(pat, k + 1, s, pos + Len(it.lit), caps)
             ELSE NoMatch

\* re.search(pat + "(?:" + cola + ")?", s): the leftmost match of pat, then the
\* optional tail where pat ended (the tail is last and optional, so it never
\* makes pat give characters back)
ReSearch(pat, cola, s) ==
    LET starts == {i \in 1..Len(s) : ReMatch(pat, 1, s, i, NoCaps).ok}
    IN  IF starts = {} THEN NoMatch
        ELSE LET m == ReMatch(pat, 1, s, SetMin(starts), NoCaps)
                 c == ReMatch(cola, 1, s, m.end, m.caps)
             IN  IF c.ok THEN c ELSE m

\* re.fullmatch(pat, s)
ReFullMatch(pat, s) == ReMatch(pat \o <<AtEnd>>, 1, s, 1, NoCaps)

(***************************************************************************)
(* datetime                                                                *)
(***************************************************************************)
Fecha(anio, mes, dia, hora, minuto) ==
    [k |-> "fecha", anio |-> anio, mes |-> mes, dia |-> dia,
     hora |-> hora, minuto |-> minuto]

\* the None a parser returns
Ninguna ==
    [k |-> "None", anio |-> 0, mes |-> 0, dia |-> 0, hora |-> 0, minuto |-> 0]

\* a ValueError leaving the parser
ValueError ==
    [k |-> "ValueError", anio |-> 0, mes |-> 0, dia |-> 0, hora |-> 0, minuto |-> 0]

\* a TypeError (None compared with a datetime)
TypeError ==
    [k |-> "TypeError", anio |-> 0, mes |-> 0, dia |-> 0, hora |-> 0, minuto |-> 0]

EsFecha(f) == f.k = "fecha"

EsBisiesto(anio) == (anio % 4 = 0 /\ anio % 100 # 0) \/ anio % 400 = 0

DiasEnMes(anio, mes) ==
    IF mes = 2 THEN (IF EsBisiesto(anio) THEN 29 ELSE 28)
    ELSE IF mes \in {4, 6, 9, 11} THEN 30 ELSE 31

\* datetime(anio, mes, dia, hora, minuto): ValueError out of range
MkDatetime(anio, mes, dia, hora, minuto) ==
    IF /\ anio \in 1..9999
       /\ mes \in 1..12
       /\ dia >= 1 /\ dia <= DiasEnMes(anio, mes)
       /\ hora \in 0..23
       /\ minuto \in 0..59
    THEN Fecha(anio, mes, dia, hora, minuto)
    ELSE ValueError

\* d1 <= d2 of two datetimes
FechaLE(d1, d2) ==
    LET a == <<d1.anio, d1.mes, d1.dia, d1.hora, d1.minuto>>
        b == <<d2.anio, d2.mes, d2.dia, d2.hora, d2.minuto>>
    IN  \/ a = b
        \/ \E i \in 1..5 : a[i] < b[i] /\ \A j \in 1..(i - 1) : a[j] = b[j]

\* %d/%m/%Y : one or two digits, "/", one or two digits, "/", four digits
PatDMY ==
    <<Cls(Digit, 1, 2, 1), Lit(<<"/">>), Cls(Digit, 1, 2, 2), Lit(<<"/">>),
      Cls(Digit, 4, 4, 3)>>

\* " %H:%M"
PatHM == <<Lit(<<" ">>), Cls(Digit, 1, 2, 6), Lit(<<":">>), Cls(Digit, 1, 2, 7)>>

\* datetime.strptime(s, "%d/%m/%Y"), and with conHora "%d/%m/%Y %H:%M": the
\* whole text must match, the fields must be in range (%d 1..31, %m 1..12,
\* %Y four digits, %H 0..23, %M 0..59) and the date must exist
Strptime(s, conHora) ==
    LET m == ReFullMatch(IF conHora THEN PatDMY \o PatHM ELSE PatDMY, s)
    IN  IF ~m.ok THEN ValueError
        ELSE LET dia  == ToInt(m.caps[1])
                 mes  == ToInt(m.caps[2])
                 anio == ToInt(m.caps[3])
                 hh   == IF conHora THEN ToInt(m.caps[6]) ELSE 0
                 mm   == IF conHora THEN ToInt(m.caps[7]) ELSE 0
             IN  IF dia \in 1..31 /\ mes \in 1..12 /\ hh \in 0..23 /\ mm \in 0..59
                 THEN MkDatetime(anio, mes, dia, hh, mm)
                 ELSE ValueError

\* f"{dia}/{mes}/{anio}" and f"{dia}/{mes}/{anio} {hora}"
FmtDMY(dia, mes, anio) ==
    IntToStr(dia) \o <<"/">> \o IntToStr(mes) \o <<"/">> \o IntToStr(anio)

\* datetime.fromisoformat(t), for the forms YYYY-MM-DD, YYYY-MM-DD?HH and
\* YYYY-MM-DD?HH:MM (? any one character); any other text is a ValueError
PatIsoFecha ==
    <<Cls(Digit, 4, 4, 1), Lit(<<"-">>), Cls(Digit, 2, 2, 2), Lit(<<"-">>),
      Cls(Digit, 2, 2, 3)>>

PatIsoHH == <<Cls(AnyChar, 1, 1, 0), Cls(Digit, 2, 2, 6)>>

PatIsoHHMM == PatIsoHH \o <<Lit(<<":">>), Cls(Digit, 2, 2, 7)>>

FromIsoFormat(t) ==
    LET m == IF Len(t) = 10 THEN ReFullMatch(PatIsoFecha, t)
             ELSE IF Len(t) = 13 THEN ReFullMatch(PatIsoFecha \o PatIsoHH, t)
             ELSE IF Len(t) = 16 THEN ReFullMatch(PatIsoFecha \o PatIsoHHMM, t)
             ELSE NoMatch
    IN  IF ~m.ok THEN ValueError
        ELSE MkDatetime(ToInt(m.caps[1]), ToInt(m.caps[2]), ToInt(m.caps[3]),
                        ToInt(m.caps[6]), ToInt(m.caps[7]))

(***************************************************************************)
(* numero_factura_provincia.py: parse_fecha_universal                      *)
(***************************************************************************)
\* MESES_ES.get(k), 0 for None
MESES_ES(k) ==
    CASE k = <<"e","n","e","r","o">> -> 1
      [] k = <<"e","n","e">> -> 1
      [] k = <<"f","e","b","r","e","r","o">> -> 2
      [] k = <<"f","e","b">> -> 2
      [] k = <<"m","a","r","z","o">> -> 3
      [] k = <<"m","a","r">> -> 3
      [] k = <<"a","b","r","i","l">> -> 4
      [] k = <<"a","b","r">> -> 4
      [] k = <<"m","a","y","o">> -> 5
      [] k = <<"j","u","n","i","o">> -> 6
      [] k = <<"j","u","n">> -> 6
      [] k = <<"j","u","l","i","o">> -> 7
      [] k = <<"j","u","l">> -> 7
      [] k = <<"a","g","o","s","t","o">> -> 8
      [] k = <<"a","g","o">> -> 8
      [] k = <<"s","e","p","t","i","e","m","b","r","e">> -> 9
      [] k = <<"s","e","t","i","e","m","b","r","e">> -> 9
      [] k = <<"s","e","p">> -> 9
      [] k = <<"s","e","t">> -> 9
      [] k = <<"o","c","t","u","b","r","e">> -> 10
      [] k = <<"o","c","t">> -> 10
      [] k = <<"n","o","v","i","e","m","b","r","e">> -> 11
      [] k = <<"n","o","v">> -> 11
      [] k = <<"d","i","c","i","e","m","b","r","e">> -> 12
      [] k = <<"d","i","c">> -> 12
      [] OTHER -> 0

\* re.sub(r"\b(hs|hrs|hr|h)\.?$", "", t): the suffix is cut where a word starts
SufijosHora == {<<"h","s">>, <<"h","r","s">>, <<"h","r">>, <<"h">>}

QuitarSufijo(t) ==
    LET colas  == {u \o d : u \in SufijosHora, d \in {<<>>, <<".">>}}
        starts == {Len(t) - Len(c) + 1 : c \in
                    {c \in colas :
                        /\ Len(c) <= Len(t)
                        /\ StartsAt(t, Len(t) - Len(c) + 1, c)
                        /\ \/ Len(c) = Len(t)
                           \/ t[Len(t) - Len(c)] \notin WordChar}}
    IN  IF starts = {} THEN t ELSE Slice(t, 1, SetMin(starts) - 1)

\* lines 28-30
LimpiarFecha(texto) ==
    LET t1 == Lower(Strip(texto))
        t2 == Strip(QuitarSufijo(t1))
    IN  Replace(Replace(t2, <<",">>, <<" ">>), <<" ", " ">>, <<" ">>)

\* (\d{1,2})\s*(de)?\s*([a-z...]+)\s*(de)?\s*(\d{2,4}) ; groups 1, 3, 5
PatronLargo ==
    <<Cls(Digit, 1, 2, 1), Cls(Space, 0, Unbounded, 0), OptLit(<<"d","e">>),
      Cls(Space, 0, Unbounded, 0), Cls(Letter, 1, Unbounded, 3),
      Cls(Space, 0, Unbounded, 0), OptLit(<<"d","e">>),
      Cls(Space, 0, Unbounded, 0), Cls(Digit, 2, 4, 5)>>

\* (?:\s+(\d{1,2}:\d{2}))? ; the hour and the minute of the last group are
\* kept as groups 6 and 7
ColaHora ==
    <<Cls(Space, 1, Unbounded, 0), Cls(Digit, 1, 2, 6), Lit(<<":">>),
      Cls(Digit, 2, 2, 7)>>

\* (\d{1,4})[\/\-.](\d{1,2})[\/\-.](\d{1,4}) ; groups 1, 2, 3
PatronNum ==
    <<Cls(Digit, 1, 4, 1), Cls(DateSep, 1, 1, 0), Cls(Digit, 1, 2, 2),
      Cls(DateSep, 1, 1, 0), Cls(Digit, 1, 4, 3)>>

\* lines 53-55 and 74-76: strptime of the f-string
ArmarFecha(dia, mes, anio, caps) ==
    IF caps[6] # <<>>
    THEN Strptime(FmtDMY(dia, mes, anio) \o <<" ">> \o caps[6] \o <<":">> \o caps[7],
                  TRUE)
    ELSE Strptime(FmtDMY(dia, mes, anio), FALSE)

\* lines 41-55
RamaLarga(m) ==
    LET dia     == ToInt(m.caps[1])
        mes_txt == m.caps[3]
        anio    == ToInt(m.caps[5])
        corto   == Slice(mes_txt, 1, IF Len(mes_txt) < 3 THEN Len(mes_txt) ELSE 3)
        mes     == IF MESES_ES(corto) # 0 THEN MESES_ES(corto) ELSE MESES_ES(mes_txt)
    IN  IF mes = 0 THEN Ninguna
        ELSE ArmarFecha(dia, mes, IF anio < 100 THEN anio + 2000 ELSE anio, m.caps)

\* OrdenNumerico reading month/day/year where the code reads day/month/year
OrdenNumerico_MesDia(nums) ==
    IF nums[1] > 31 THEN <<nums[3], nums[2], nums[1]>>
    ELSE IF nums[3] > 31 THEN <<nums[2], nums[1], nums[3]>>
    ELSE <<nums[2], nums[1], IF nums[3] < 100 THEN nums[3] + 2000 ELSE nums[3]>>

\* lines 65-72: <<dia, mes, anio>> of the three numbers
OrdenNumerico(nums) ==
    IF nums[1] > 31 THEN <<nums[3], nums[2], nums[1]>>
    ELSE IF nums[3] > 31 THEN <<nums[1], nums[2], nums[3]>>
    ELSE <<nums[1], nums[2], IF nums[3] < 100 THEN nums[3] + 2000 ELSE nums[3]>>

\* lines 60-76
RamaNum(m) ==
    LET nums == <<ToInt(m.caps[1]), ToInt(m.caps[2]), ToInt(m.caps[3])>>
        dma  == OrdenNumerico(nums)
    IN  ArmarFecha(dma[1], dma[2], dma[3], m.caps)

\* which attempt decides: "iso", "largo", "num" or "ninguno"
RamaFecha(texto) ==
    LET t == LimpiarFecha(texto)
    IN  IF EsFecha(FromIsoFormat(t)) THEN "iso"
        ELSE IF ReSearch(PatronLargo, ColaHora, t).ok THEN "largo"
        ELSE IF ReSearch(PatronNum, ColaHora, t).ok THEN "num"
        ELSE "ninguno"

\* Python's None, where a text may stand
None == <<"None">>

\* lines 24-78
parse_fecha_universal(texto) ==
    LET t   == LimpiarFecha(texto)
        iso == FromIsoFormat(t)
        ml  == ReSearch(PatronLargo, ColaHora, t)
        mn  == ReSearch(PatronNum, ColaHora, t)
    IN  IF texto = None THEN Ninguna
        ELSE IF EsFecha(iso) THEN iso
        ELSE IF ml.ok THEN RamaLarga(ml)
        ELSE IF mn.ok THEN RamaNum(mn)
        ELSE Ninguna

(***************************************************************************)
(* codigo_busca_prov.py: parsear_fecha                                     *)
(***************************************************************************)
\* the dictionary meses, <<>> for a KeyError
MesesLargos(k) ==
    CASE k = <<"e","n","e","r","o">> -> <<"0","1">>
      [] k = <<"f","e","b","r","e","r","o">> -> <<"0","2">>
      [] k = <<"m","a","r","z","o">> -> <<"0","3">>
      [] k = <<"a","b","r","i","l">> -> <<"0","4">>
      [] k = <<"m","a","y","o">> -> <<"0","5">>
      [] k = <<"j","u","n","i","o">> -> <<"0","6">>
      [] k = <<"j","u","l","i","o">> -> <<"0","7">>
      [] k = <<"a","g","o","s","t","o">> -> <<"0","8">>
      [] k = <<"s","e","p","t","i","e","m","b","r","e">> -> <<"0","9">>
      [] k = <<"o","c","t","u","b","r","e">> -> <<"1","0">>
      [] k = <<"n","o","v","i","e","m","b","r","e">> -> <<"1","1">>
      [] k = <<"d","i","c","i","e","m","b","r","e">> -> <<"1","2">>
      [] OTHER -> <<>>

\* lines 25-32: every exception of the long form gives None
ParsearFechaLarga(fecha_str) ==
    LET partes == Split(Replace(Replace(Lower(fecha_str), <<"h","s",".">>, <<>>),
                                <<"h","s">>, <<>>))
    IN  IF Len(partes) < 5 \/ ~AllDigits(partes[1]) \/ MesesLargos(partes[3]) = <<>>
        THEN Ninguna
        ELSE LET f == Strptime(IntToStr(ToInt(partes[1])) \o <<"/">>
                                 \o MesesLargos(partes[3]) \o <<"/">> \o partes[5],
                               FALSE)
             IN  IF EsFecha(f) THEN f ELSE Ninguna

parsear_fecha(fecha_str) ==
    LET s     == Strip(fecha_str)
        corta == Strptime(s, FALSE)
    IN  IF EsFecha(corta) THEN corta ELSE ParsearFechaLarga(s)

(***************************************************************************)
(* The texts the date parsers are run on.  A text is written from a        *)
(* description (fuente): a numeric date a<sep>b<sep>c, a long-form date     *)
(* "a [de] <month b> [de] c", an ISO date a-b-c, each with an optional      *)
(* hour h = <<hour, minute>>, or a free text.  h = <<>> is a date without    *)
(* hour.                                                                    *)
(***************************************************************************)

Pad2(n) == IF n < 10 THEN <<"0">> \o IntToStr(n) ELSE IntToStr(n)

Pad4(n) ==
    IF n < 10 THEN <<"0","0","0">> \o IntToStr(n)
    ELSE IF n < 100 THEN <<"0","0">> \o IntToStr(n)
    ELSE IF n < 1000 THEN <<"0">> \o IntToStr(n)
    ELSE IntToStr(n)

\* the month names written in long-form dates; 13 and 14 are no months
NombresMes ==
    <<<<"e","n","e","r","o">>, <<"f","e","b","r","e","r","o">>,
      <<"m","a","r","z","o">>, <<"a","b","r","i","l">>, <<"m","a","y","o">>,
      <<"j","u","n","i","o">>, <<"j","u","l","i","o">>,
      <<"a","g","o","s","t","o">>,
      <<"s","e","p","t","i","e","m","b","r","e">>,
      <<"o","c","t","u","b","r","e">>,
      <<"n","o","v","i","e","m","b","r","e">>,
      <<"d","i","c","i","e","m","b","r","e">>,
      <<"l","u","n","e","s">>, <<"m","a","r","t","e","s">>>>

Mk(forma, a, b, c, sep, h, pad, var, libre) ==
    [forma |-> forma, a |-> a, b |-> b, c |-> c, sep |-> sep, h |-> h,
     pad |-> pad, var |-> var, libre |-> libre]

RenderNum(n, pad) == IF pad THEN Pad2(n) ELSE IntToStr(n)

RenderHora(f) ==
    IF f.h = <<>> THEN <<>>
    ELSE <<" ">> \o RenderNum(f.h[1], f.pad) \o <<":">> \o Pad2(f.h[2])

RenderMes(f) ==
    CASE f.var = "abrev" -> Slice(NombresMes[f.b], 1, 3)
      [] f.var = "mayus" -> Upper(NombresMes[f.b])
      [] OTHER           -> NombresMes[f.b]

Render(f) ==
    CASE f.forma = "num" ->
           RenderNum(f.a, f.pad) \o <<f.sep>> \o RenderNum(f.b, f.pad)
             \o <<f.sep>> \o RenderNum(f.c, f.pad) \o RenderHora(f)
             \o (IF f.var = "hs" THEN <<" ","h","s",".">> ELSE <<>>)
      [] f.forma = "largo" ->
           IntToStr(f.a)
             \o (IF f.var = "sin_de" THEN <<" ">> ELSE <<" ","d","e"," ">>)
             \o RenderMes(f)
             \o (IF f.var = "sin_de" THEN <<" ">> ELSE <<" ","d","e"," ">>)
             \o RenderNum(f.c, f.pad) \o RenderHora(f)
      [] f.forma = "iso" ->
           Pad4(f.a) \o <<"-">> \o Pad2(f.b) \o <<"-">> \o Pad2(f.c)
             \o (IF f.h = <<>> THEN <<>>
                 ELSE <<f.sep>> \o Pad2(f.h[1]) \o <<":">> \o Pad2(f.h[2]))
      [] OTHER -> f.libre

\* the years written in full
AniosLargos == {1000, 2024, 2025}

\* last numbers around the limits 31 and 100 of lines 65-72
Limites == {0, 5, 25, 31, 32, 45, 99, 100, 125, 999}

\* numeric dates with "/" and no hour: every two-digit last number, and the
\* numbers around the limits
FuentesNumBase ==
    {Mk("num", 14, 1, c, "/", <<>>, pad, "", <<>>) :
        c \in 0..99, pad \in BOOLEAN}
    \cup
    {Mk("num", a, b, c, "/", <<>>, FALSE, "", <<>>) :
        a \in {0, 1, 14, 29, 31, 32, 45, 999} \cup AniosLargos,
        b \in {0, 1, 2, 4, 12, 13},
        c \in Limites \cup AniosLargos}

\* numeric dates with the other separators, padded numbers, an hour, a suffix
FuentesNumVar ==
    {f \in {Mk("num", a, b, c, sv[1], h, pad, sv[2], <<>>) :
                a \in {14, 32, 2025}, b \in {1, 13}, c \in {5, 14, 45, 2025},
                sv \in {<<"/", "">>, <<"-", "">>, <<".", "hs">>},
                h \in {<<>>, <<8, 23>>, <<24, 0>>, <<8, 60>>},
                pad \in BOOLEAN} :
        f.pad \/ f.sep # "/" \/ f.h # <<>>}

\* long-form dates
FuentesLargo ==
    {Mk("largo", 17, 11, c, "", <<>>, TRUE, "de", <<>>) : c \in 0..99}
    \cup
    {Mk("largo", a, b, c, "", h, TRUE, var, <<>>) :
        a \in {17, 31, 32}, b \in 1..14, c \in {5, 25, 125, 2025},
        h \in {<<>>, <<8, 23>>},
        var \in {"de", "sin_de", "abrev", "mayus"}}
    \cup
    {Mk("largo", 17, 11, c, "", <<>>, FALSE, "de", <<>>) : c \in {5, 25}}

\* ISO dates
FuentesIso ==
    {Mk("iso", a, b, c, sep, h, TRUE, "", <<>>) :
        a \in {45, 2024, 2025}, b \in {1, 2, 13}, c \in {14, 29, 31},
        sep \in {"T", " "}, h \in {<<>>, <<8, 23>>, <<24, 0>>}}

\* free texts: "", "   ", "not a date", "2025-1-14t08:23", "14/1", "17 de 2025",
\* "14/123/2025", "12345/1/14", "14/1/2025 8:5", "8h", "14/1/2025, 08:23hs"
Libres ==
    {<<>>,
     <<" "," "," ">>,
     <<"n","o","t"," ","a"," ","d","a","t","e">>,
     <<"2","0","2","5","-","1","-","1","4","t","0","8",":","2","3">>,
     <<"1","4","/","1">>,
     <<"1","7"," ","d","e"," ","2","0","2","5">>,
     <<"1","4","/","1","2","3","/","2","0","2","5">>,
     <<"1","2","3","4","5","/","1","/","1","4">>,
     <<"1","4","/","1","/","2","0","2","5"," ","8",":","5">>,
     <<"8","h">>,
     <<" ","1","4","/","1","/","2","0","2","5",","," ","0","8",":","2","3","h","s">>}

FuentesLibres == {Mk("libre", 0, 0, 0, "", <<>>, FALSE, "", t) : t \in Libres}

Fuentes == FuentesNumBase \cup FuentesNumVar \cup FuentesLargo \cup FuentesIso
             \cup FuentesLibres

\* a parser not yet run
Pendiente ==
    [k |-> "pendiente", anio |-> 0, mes |-> 0, dia |-> 0, hora |-> 0, minuto |-> 0]

(***************************************************************************)
(* The date parsers applied to one text                                    *)
(***************************************************************************)
\* the scripts are separate programs: while one runs, the others' variables rest
ReposoFecha ==
    /\ fuente = Mk("libre", 0, 0, 0, "", <<>>, FALSE, "", <<>>)
    /\ entrada = <<>>
    /\ fecha_u = Pendiente
    /\ fecha_p = Pendiente

ReposoBalance ==
    /\ filas = <<>>
    /\ reglas = <<>>
    /\ paginas = <<>>
    /\ resultados = <<>>
    /\ pc_bal = "reposo"

ReposoBusca ==
    /\ disco = <<>>
    /\ datos = <<>>
    /\ pc_busca = "reposo"
    /\ op = <<>>
    /\ pantalla = [msgs |-> <<>>, lista |-> <<>>]
    /\ exportado = [nombre |-> "", filas |-> <<>>]
    /\ afip_raw = <<>>
    /\ ml_raw = <<>>
    /\ ml_provincias = <<>>

\* no exception
SinError == [k |-> "", en |-> ""]

ReposoFacturas ==
    /\ archivos = <<>>
    /\ unificados = <<>>
    /\ datos_filtrados = <<>>
    /\ op_nf = <<>>
    /\ desde = <<>>
    /\ hasta = <<>>
    /\ impreso = [msgs |-> <<>>, lista |-> <<>>]
    /\ pc_nf = "reposo"
    /\ error_nf = SinError

InitFecha ==
    /\ fuente \in Fuentes
    /\ entrada = Render(fuente)
    /\ fecha_u = Pendiente
    /\ fecha_p = Pendiente
    /\ ReposoBalance
    /\ ReposoBusca
    /\ ReposoFacturas

ParseFechaUniversal ==
    /\ fecha_u = Pendiente
    /\ fecha_u' = parse_fecha_universal(entrada)
    /\ UNCHANGED <<fuente, entrada, fecha_p, varsBalance, varsBusca, varsFacturas>>

ParsearFecha ==
    /\ fecha_p = Pendiente
    /\ fecha_p' = parsear_fecha(entrada)
    /\ UNCHANGED <<fuente, entrada, fecha_u, varsBalance, varsBusca, varsFacturas>>

NextFecha == ParseFechaUniversal \/ ParsearFecha

SpecFecha == InitFecha /\ [][NextFecha]_vars

(***************************************************************************)
(* Properties of the date parsers                                          *)
(***************************************************************************)
\* C1: for every text, parse_fecha_universal and parsear_fecha return a date
\* or None and never raise.
C1_NeverRaises ==
    /\ fecha_u.k \in {"pendiente", "fecha", "None"}
    /\ fecha_p.k \in {"pendiente", "fecha", "None"}

\* a two-digit year, written with two digits, in a numeric or long-form date
\* whose day and month are valid
DosDigitos ==
    /\ fuente.forma \in {"num", "largo"}
    /\ fuente.c \in 0..99
    /\ fuente.pad \/ fuente.c >= 10
    /\ fuente.b \in 1..12
    /\ fuente.a >= 1 /\ fuente.a <= DiasEnMes(2000 + fuente.c, fuente.b)
    /\ fuente.var \in {"", "de", "sin_de", "mayus"}
    /\ fuente.h = <<>>

\* C6: for every two-digit year YY in 0..99 written in a long-form or numeric
\* date with valid day and month, parse_fecha_universal returns a date whose
\* year is 2000+YY.
C6_TwoDigitYear ==
    (DosDigitos /\ fecha_u # Pendiente) =>
        (EsFecha(fecha_u) /\ fecha_u.anio = 2000 + fuente.c)

\* a text A<sep>B<sep>C that the numeric attempt parsed into a date
NumericaConFecha ==
    /\ fuente.forma = "num"
    /\ EsFecha(fecha_u)
    /\ RamaFecha(entrada) = "num"

\* the hour of the text is kept, and a date without hour is at midnight
HoraConservada ==
    IF fuente.h = <<>> THEN fecha_u.hora = 0 /\ fecha_u.minuto = 0
    ELSE fecha_u.hora = fuente.h[1] /\ fecha_u.minuto = fuente.h[2]

PrimerExito(iso, ml, mn) ==
    IF EsFecha(iso) THEN iso
    ELSE IF ml.ok /\ RamaLarga(ml) # Ninguna THEN RamaLarga(ml)
    ELSE IF mn.ok THEN RamaNum(mn)
    ELSE Ninguna

\* C11: what parse_fecha_universal gave is what the first attempt to succeed
\* gives, the attempts taken in the order ISO, long-form, numeric, and a
\* long-form match whose month name is not in the month table being a failure
\* of that attempt only: the numeric attempt is then made.
C11_Original ==
    fecha_u # Pendiente =>
        fecha_u = PrimerExito(FromIsoFormat(LimpiarFecha(entrada)),
                              ReSearch(PatronLargo, ColaHora, LimpiarFecha(entrada)),
                              ReSearch(PatronNum, ColaHora, LimpiarFecha(entrada)))

(***************************************************************************)
(* balance.py: cargar_reglas, limpiar_linea, clasificar_lineas_texto       *)
(***************************************************************************)
\* a cell pandas read as missing (pd.notna is False)
NaN == <<"NaN">>

\* s.split(";")
RECURSIVE SplitOn(_, _)
SplitOn(s, c) ==
    LET cuts == {i \in 1..Len(s) : s[i] = c}
    IN  IF cuts = {} THEN <<s>>
        ELSE <<Slice(s, 1, SetMin(cuts) - 1)>>
               \o SplitOn(Slice(s, SetMin(cuts) + 1, Len(s)), c)

\* ReglasDeFila without the "if p.strip()" of line 66: empty patterns are kept
ReglasDeFila_SinFiltro(row) ==
    LET categoria    == IF row.categoria # NaN THEN Strip(row.categoria) ELSE <<>>
        patrones_raw == IF row.patrones # NaN THEN Strip(row.patrones) ELSE <<>>
        partes       == SplitOn(patrones_raw, ";")
    IN  IF categoria = <<>> THEN <<>>
        ELSE IF \/ patrones_raw = <<>>
                \/ Lower(patrones_raw) \in {<<"n","a","n">>, <<"n","o","n","e">>}
        THEN <<>>
        ELSE [i \in 1..Len(partes) |->
                 [categoria |-> categoria, patron |-> Strip(partes[i])]]

\* lines 57-68: the rules one row gives
ReglasDeFila(row) ==
    LET categoria    == IF row.categoria # NaN THEN Strip(row.categoria) ELSE <<>>
        patrones_raw == IF row.patrones # NaN THEN Strip(row.patrones) ELSE <<>>
        partes       == SplitOn(patrones_raw, ";")
        patrones     == SelectSeq([i \in 1..Len(partes) |-> Strip(partes[i])],
                                  LAMBDA q : q # <<>>)
    IN  IF categoria = <<>> THEN <<>>
        ELSE IF \/ patrones_raw = <<>>
                \/ Lower(patrones_raw) \in {<<"n","a","n">>, <<"n","o","n","e">>}
        THEN <<>>
        ELSE [i \in 1..Len(patrones) |->
                 [categoria |-> categoria, patron |-> patrones[i]]]

\* lines 55-68: the rules in the order they are read
RECURSIVE ReglasLeidas(_)
ReglasLeidas(df) ==
    IF df = <<>> THEN <<>>
    ELSE ReglasLeidas(SubSeq(df, 1, Len(df) - 1)) \o ReglasDeFila(df[Len(df)])

\* one rule put in its place: after the rules at least as long (the sort is stable)
InsertarRegla(orden, r) ==
    LET antes == Cardinality({i \in 1..Len(orden) :
                                 Len(orden[i].patron) >= Len(r.patron)})
    IN  SubSeq(orden, 1, antes) \o <<r>> \o SubSeq(orden, antes + 1, Len(orden))

\* OrdenarPorLargo without the sort of line 71
OrdenarPorLargo_SinOrdenar(rs) == rs

\* line 71: reglas.sort(key=lambda x: len(x[1]), reverse=True)
RECURSIVE OrdenarPorLargo(_)
OrdenarPorLargo(rs) ==
    IF rs = <<>> THEN <<>>
    ELSE InsertarRegla(OrdenarPorLargo(SubSeq(rs, 1, Len(rs) - 1)), rs[Len(rs)])

cargar_reglas(df) == OrdenarPorLargo(ReglasLeidas(df))

\* texto.splitlines()
RECURSIVE Splitlines(_)
Splitlines(s) ==
    LET cuts == {i \in 1..Len(s) : s[i] = "\n"}
    IN  IF s = <<>> THEN <<>>
        ELSE IF cuts = {} THEN <<s>>
        ELSE <<Slice(s, 1, SetMin(cuts) - 1)>>
               \o Splitlines(Slice(s, SetMin(cuts) + 1, Len(s)))

limpiar_linea(s) == Strip(JoinSpace(Split(s)))

\* sub in s
Contiene(s, sub) == \E i \in 1..(Len(s) - Len(sub) + 1) : StartsAt(s, i, sub)

SIN_CLASIFICAR ==
    <<"S","I","N"," ","C","L","A","S","I","F","I","C","A","R">>

Resultado(pagina, linea, categoria, patron) ==
    [pagina |-> pagina, linea_texto |-> linea, categoria_detectada |-> categoria,
     patron_detectado |-> patron]

\* lines 118-139: the rows one raw line adds to resultados
ClasificarLinea(pagina_num, raw_line, rs) ==
    LET linea    == limpiar_linea(raw_line)
        linea_up == Upper(linea)
        hits     == {i \in 1..Len(rs) : Contiene(linea_up, Upper(rs[i].patron))}
    IN  IF linea = <<>> THEN <<>>
        ELSE IF hits # {}
        THEN <<Resultado(pagina_num, linea, rs[SetMin(hits)].categoria,
                         rs[SetMin(hits)].patron)>>
        ELSE <<Resultado(pagina_num, linea, SIN_CLASIFICAR, <<>>)>>

RECURSIVE ClasificarLineas(_, _, _)
ClasificarLineas(pagina_num, lineas, rs) ==
    IF lineas = <<>> THEN <<>>
    ELSE ClasificarLinea(pagina_num, Head(lineas), rs)
           \o ClasificarLineas(pagina_num, Tail(lineas), rs)

\* lines 112-140
RECURSIVE clasificar_lineas_texto(_, _)
clasificar_lineas_texto(texto_por_pagina, rs) ==
    IF texto_por_pagina = <<>> THEN <<>>
    ELSE LET pag == Head(texto_por_pagina)
         IN  (IF pag[2] = <<>> THEN <<>>
              ELSE ClasificarLineas(pag[1], Splitlines(pag[2]), rs))
               \o clasificar_lineas_texto(Tail(texto_por_pagina), rs)

(***************************************************************************)
(* The rule tables and the page texts main() is run on                     *)
(***************************************************************************)
MaxFilas == 2

MaxTexto == 3

\* the category of the i-th row
Cat(i) == <<"C">> \o IntToStr(i)

\* pattern cells: "a", "B", "ab", "a b", "Ab;a", " B ; a", ";", "nan", missing
Celdas ==
    {<<"a">>, <<"B">>, <<"a","b">>, <<"a"," ","b">>, <<"A","b",";","a">>,
     <<" ","B"," ",";"," ","a">>, <<";">>, <<"n","a","n">>, NaN}

\* rows: a category and a pattern cell, or a row with no category
FilasPosibles(i) ==
    {[categoria |-> Cat(i), patrones |-> c] : c \in Celdas}
    \cup {[categoria |-> NaN, patrones |-> <<"a">>],
          [categoria |-> <<" ">>, patrones |-> <<"B">>]}

RECURSIVE Tablas(_)
Tablas(n) ==
    IF n = 0 THEN {<<>>}
    ELSE Tablas(n - 1)
           \cup {Append(t, f) : t \in {u \in Tablas(n - 1) : Len(u) = n - 1},
                                f \in FilasPosibles(n)}

RECURSIVE Textos(_)
Textos(n) ==
    IF n = 0 THEN {<<>>}
    ELSE Textos(n - 1)
           \cup {Append(t, c) : t \in {u \in Textos(n - 1) : Len(u) = n - 1},
                                c \in {"a", "B", " ", "\n"}}

InitBalance ==
    /\ filas \in Tablas(MaxFilas)
    /\ reglas = <<>>
    /\ paginas = <<>>
    /\ resultados = <<>>
    /\ pc_bal = "inicio"
    /\ ReposoFecha
    /\ ReposoBusca
    /\ ReposoFacturas

\* main(), line 161
CargarReglas ==
    /\ pc_bal = "inicio"
    /\ reglas' = cargar_reglas(filas)
    /\ pc_bal' = "reglas"
    /\ UNCHANGED <<filas, paginas, resultados, varsFecha, varsBusca, varsFacturas>>

\* main(), line 162: the extractor gives the text of the page
ExtraerTextoPdf ==
    /\ pc_bal = "reglas"
    /\ \E t \in Textos(MaxTexto) : paginas' = <<<<1, t>>>>
    /\ pc_bal' = "texto"
    /\ UNCHANGED <<filas, reglas, resultados, varsFecha, varsBusca, varsFacturas>>

\* main(), line 163
ClasificarLineasTexto ==
    /\ pc_bal = "texto"
    /\ resultados' = clasificar_lineas_texto(paginas, reglas)
    /\ pc_bal' = "clasificado"
    /\ UNCHANGED <<filas, reglas, paginas, varsFecha, varsBusca, varsFacturas>>

NextBalance == CargarReglas \/ ExtraerTextoPdf \/ ClasificarLineasTexto

SpecBalance == InitBalance /\ [][NextBalance]_vars

(***************************************************************************)
(* Properties of the classifier                                            *)
(***************************************************************************)
\* patron is a substring of linea when the case of the letters is ignored
CoincideSinCaja(linea, patron) ==
    \E i \in 1..(Len(linea) - Len(patron) + 1) :
        \A j \in 1..Len(patron) : LowerChar(linea[i + j - 1]) = LowerChar(patron[j])

\* the rules, in the order they were read, whose pattern occurs in linea
Coincidentes(linea) ==
    {i \in 1..Len(ReglasLeidas(filas)) :
        CoincideSinCaja(linea, ReglasLeidas(filas)[i].patron)}

\* the first read among the longest patterns that occur in linea
MejorRegla(linea) ==
    LET leidas == ReglasLeidas(filas)
        M      == Coincidentes(linea)
        largo  == SetMax({Len(leidas[i].patron) : i \in M})
    IN  leidas[SetMin({i \in M : Len(leidas[i].patron) = largo})]

\* C2: for every rule table and every line that is not empty, when a pattern
\* occurs in the line (case ignored) the row reported for the line names the
\* longest pattern that occurs in it and, among equally long ones, the one
\* read first, with its category.
C2_LongestMatchWins ==
    pc_bal = "clasificado" =>
        \A k \in 1..Len(resultados) :
            LET r == resultados[k]
            IN  Coincidentes(r.linea_texto) # {} =>
                  /\ r.patron_detectado = MejorRegla(r.linea_texto).patron
                  /\ r.categoria_detectada = MejorRegla(r.linea_texto).categoria

\* C2 witness: a line in which a shorter pattern read first and a longer one
\* read later both occur, and the longer one is reported
C2_Witness ==
    /\ pc_bal = "clasificado"
    /\ \E k \in 1..Len(resultados) :
         LET leidas == ReglasLeidas(filas)
             M      == Coincidentes(resultados[k].linea_texto)
         IN  \E i, j \in M :
                /\ i < j
                /\ Len(leidas[i].patron) < Len(leidas[j].patron)
                /\ leidas[i].categoria # leidas[j].categoria
                /\ resultados[k].patron_detectado = leidas[j].patron
                /\ resultados[k].categoria_detectada = leidas[j].categoria

\* C3 as stated: when no pattern of the loaded rules occurs in a line, the
\* row reported for it has the category "UNCLASSIFIED" and an empty pattern,
\* and an empty pattern is reported only then.
C3_Original ==
    pc_bal = "clasificado" =>
        \A k \in 1..Len(resultados) :
            LET r       == resultados[k]
                ninguno == \A i \in 1..Len(reglas) :
                               ~CoincideSinCaja(r.linea_texto, reglas[i].patron)
            IN  /\ ninguno =>
                     /\ r.categoria_detectada
                          = <<"U","N","C","L","A","S","S","I","F","I","E","D">>
                     /\ r.patron_detectado = <<>>
                /\ r.patron_detectado = <<>> => ninguno

\* C3 amended: when no pattern of the loaded rules occurs in a line, the row
\* reported for it has the category "SIN CLASIFICAR" and an empty pattern,
\* and an empty pattern is reported only then.
C3_SinClasificar ==
    pc_bal = "clasificado" =>
        \A k \in 1..Len(resultados) :
            LET r       == resultados[k]
                ninguno == \A i \in 1..Len(reglas) :
                               ~CoincideSinCaja(r.linea_texto, reglas[i].patron)
            IN  /\ ninguno =>
                     /\ r.categoria_detectada
                          = <<"S","I","N"," ","C","L","A","S","I","F","I","C","A","R">>
                     /\ r.patron_detectado = <<>>
                /\ r.patron_detectado = <<>> => ninguno

\* C3 witness: rules are loaded, a line matches none of them and another line
\* of the same text matches one
C3_Witness ==
    /\ pc_bal = "clasificado"
    /\ reglas # <<>>
    /\ \E k \in 1..Len(resultados) : resultados[k].patron_detectado = <<>>
    /\ \E k \in 1..Len(resultados) : resultados[k].patron_detectado # <<>>

(***************************************************************************)
(* codigo_busca_prov.py                                                    *)
(*                                                                         *)
(* A CSV file is a list of lines and a line is the list of its fields      *)
(* (the texts between the ";").  A row read from it is a function from     *)
(* field names to texts.                                                   *)
(***************************************************************************)
F_fecha == <<"f","e","c","h","a">>

F_numero_factura ==
    <<"n","u","m","e","r","o","_","f","a","c","t","u","r","a">>

F_dni == <<"d","n","i">>

F_valor_total == <<"v","a","l","o","r","_","t","o","t","a","l">>

F_provincia == <<"p","r","o","v","i","n","c","i","a">>

\* lines 131 and 135: the fields asked of each file
CamposAfip == <<F_fecha, F_numero_factura, F_dni, F_valor_total>>

CamposMl == <<F_fecha, F_valor_total, F_dni, F_provincia>>

\* line 43: l.strip() of a line, and whether anything is left of it
StripLinea(l) ==
    IF Len(l) = 0 THEN l
    ELSE IF Len(l) = 1 THEN <<Strip(l[1])>>
    ELSE <<Slice(l[1], SetMin({i \in 1..(Len(l[1]) + 1) :
                                  i > Len(l[1]) \/ l[1][i] \notin Space}),
                 Len(l[1]))>>
           \o SubSeq(l, 2, Len(l) - 1)
           \o <<Slice(l[Len(l)], 1,
                      SetMax({i \in 0..Len(l[Len(l)]) :
                                 i = 0 \/ l[Len(l)][i] \notin Space}))>>

LineaVacia(l) == Len(l) = 0 \/ (Len(l) = 1 /\ Strip(l[1]) = <<>>)

\* a row of the file read under a header: the field of each name asked, "" for
\* a name the header does not have, None (DictReader's restval) for a name
\* whose field the line is too short to have
CampoConHeader(nombres, linea, c) ==
    LET pos == {i \in 1..Len(nombres) : nombres[i] = c}
    IN  IF pos = {} THEN <<>>
        ELSE IF SetMax(pos) > Len(linea) THEN None
        ELSE linea[SetMax(pos)]

\* lines 38-72: the rows read, <<>> when the file is empty or anything raises
leer_csv(archivo, campos) ==
    LET limpias == [i \in 1..Len(archivo) |-> StripLinea(archivo[i])]
        lineas  == SelectSeq(limpias, LAMBDA l : ~LineaVacia(l))
        nombres == {campos[i] : i \in 1..Len(campos)}
        idx(c)  == CHOOSE i \in 1..Len(campos) : campos[i] = c
    IN  IF lineas = <<>> THEN <<>>
        ELSE IF \E i \in 1..Len(lineas[1]) : Contiene(Lower(lineas[1][i]), F_fecha)
        THEN \* the first line is a header: csv.DictReader
             LET cuerpo == Tail(lineas)
                 crudo  == [k \in 1..Len(cuerpo) |->
                              [c \in nombres |-> CampoConHeader(lineas[1], cuerpo[k], c)]]
             IN  IF \E k \in 1..Len(crudo) : \E c \in nombres : crudo[k][c] = None
                 THEN <<>>   \* None.strip() raises, the except returns []
                 ELSE [k \in 1..Len(crudo) |-> [c \in nombres |-> Strip(crudo[k][c])]]
        ELSE \* no header: the fields by position, short lines skipped
             LET largas == SelectSeq(lineas, LAMBDA l : Len(l) >= Len(campos))
             IN  [k \in 1..Len(largas) |-> [c \in nombres |-> Strip(largas[k][idx(c)])]]

\* float(s) of a text written [sign] digits [. digits], blanks around it
\* allowed; <<>> for a ValueError, which is what any other text gives but for
\* the exponents, "inf", "nan" and "_" that no text of this model has.
\* The value is num / 10^esc, with no trailing zero among the decimals.
PatFloat ==
    <<Cls({"+", "-"}, 0, 1, 1), Cls(Digit, 0, Unbounded, 2), OptLit(<<".">>),
      Cls(Digit, 0, Unbounded, 3)>>

RECURSIVE SinCerosFinales(_)
SinCerosFinales(d) ==
    IF Len(d) > 0 /\ d[Len(d)] = "0" THEN SinCerosFinales(Slice(d, 1, Len(d) - 1))
    ELSE d

FloatDe(m) ==
    IF ~m.ok \/ Len(m.caps[2]) + Len(m.caps[3]) = 0 THEN <<>>
    ELSE <<[neg |-> m.caps[1] = <<"-">>,
            num |-> ToInt(m.caps[2] \o SinCerosFinales(m.caps[3])),
            esc |-> Len(SinCerosFinales(m.caps[3]))]>>

Float(s) == FloatDe(ReFullMatch(PatFloat, Strip(s)))

\* lines 80-98: what normalizar_afip returns of the values it has read
RegistroAfip(fecha, dni, nro, monto) ==
    IF ~EsFecha(fecha) THEN <<>>
    ELSE IF monto = <<>> THEN <<>>
    ELSE <<[fecha |-> fecha, dni |-> IF dni # <<>> THEN dni ELSE None,
            numero |-> nro, valor |-> monto[1], provincia |-> None]>>

\* lines 78-98: the record of a row, <<>> for None
normalizar_afip(row) ==
    RegistroAfip(parsear_fecha(row[F_fecha]), Strip(row[F_dni]),
                 Strip(row[F_numero_factura]),
                 Float(Replace(row[F_valor_total], <<",">>, <<".">>)))

\* s.encode("latin1").decode("utf-8", errors="ignore") for texts of ASCII
\* characters and of "A_tilde" (byte C3), "sup3" (byte B3) and "o_ac" (byte
\* F3): C3 B3 is the letter "o_ac", F3 B3 B3 B3 is one character, and a byte
\* that starts or continues nothing is dropped
RECURSIVE Utf8Ignore(_, _)
Utf8Ignore(s, pos) ==
    IF pos > Len(s) THEN <<>>
    ELSE LET conts == RunLen(s, pos + 1, {"sup3"}, 3)
         IN  CASE s[pos] = "A_tilde" ->
                    IF conts >= 1 THEN <<"o_ac">> \o Utf8Ignore(s, pos + 2)
                    ELSE Utf8Ignore(s, pos + 1)
               [] s[pos] = "o_ac" ->
                    IF conts = 3 THEN <<"U+F3CF3">> \o Utf8Ignore(s, pos + 4)
                    ELSE Utf8Ignore(s, pos + 1 + conts)
               [] s[pos] = "sup3" -> Utf8Ignore(s, pos + 1)
               [] OTHER -> <<s[pos]>> \o Utf8Ignore(s, pos + 1)

\* lines 104-114: <<>> for None
normalizar_mercado(row) ==
    LET dni == Strip(row[F_dni])
    IN  IF dni = <<>> THEN <<>>
        ELSE <<[dni |-> dni, provincia |-> Strip(Utf8Ignore(row[F_provincia], 1))]>>

\* d[k] = v of a dictionary
DictSet(d, k, v) == [x \in DOMAIN d \cup {k} |-> IF x = k THEN v ELSE d[x]]

\* the dictionary after one more row, were a dni's first province kept
AnotarProvincia_PrimeraGana(provincias, f) ==
    IF f # <<>> /\ f[1].dni \notin DOMAIN provincias
    THEN DictSet(provincias, f[1].dni, f[1].provincia)
    ELSE provincias

\* lines 139-141: the dictionary after one more row
AnotarProvincia(provincias, f) ==
    IF f # <<>> THEN DictSet(provincias, f[1].dni, f[1].provincia) ELSE provincias

\* lines 137-141: the dictionary after the rows, read in order
RECURSIVE ConstruirProvincias(_)
ConstruirProvincias(rows) ==
    IF rows = <<>> THEN <<>>
    ELSE AnotarProvincia(ConstruirProvincias(SubSeq(rows, 1, Len(rows) - 1)),
                         normalizar_mercado(rows[Len(rows)]))

\* "Córdoba", line 149
CORDOBA == <<"C","o_ac","r","d","o","b","a">>

\* one record after the assignment, were there no else branch
AsignarProvincia_SinDefecto(f, provincias) ==
    IF f.dni \in DOMAIN provincias
    THEN [f EXCEPT !.provincia = provincias[f.dni]]
    ELSE f

\* lines 144-149: one record after the assignment
AsignarProvincia(f, provincias) ==
    IF f.dni \in DOMAIN provincias
    THEN [f EXCEPT !.provincia = provincias[f.dni]]
    ELSE [f EXCEPT !.provincia = CORDOBA]

RECURSIVE Aplanar(_)
Aplanar(ss) == IF ss = <<>> THEN <<>> ELSE Head(ss) \o Aplanar(Tail(ss))

\* line 132
NormalizarAfip(rows) == Aplanar([i \in 1..Len(rows) |-> normalizar_afip(rows[i])])

\* lines 144-149
AsignarProvincias(afip, provincias) ==
    [i \in 1..Len(afip) |-> AsignarProvincia(afip[i], provincias)]

\* lines 132-151: what cargar_todo builds of the rows read, and returns as afip
Cargado(a_raw, m_raw, provincias) ==
    [afip_raw |-> a_raw, ml_raw |-> m_raw, ml_provincias |-> provincias,
     afip |-> AsignarProvincias(NormalizarAfip(a_raw), provincias)]

CargarDe(a_raw, m_raw) == Cargado(a_raw, m_raw, ConstruirProvincias(m_raw))

\* lines 131-151, the files being there
cargar_todo(leidos) ==
    CargarDe(leer_csv(leidos.afip, CamposAfip), leer_csv(leidos.ml, CamposMl))

\* fecha.strftime("%d/%m/%Y")
Strftime(f) == Pad2(f.dia) \o <<"/">> \o Pad2(f.mes) \o <<"/">> \o Pad4(f.anio)

\* lines 172-175
filtrar_por_provincia(lista, prov) ==
    SelectSeq(lista, LAMBDA f : Lower(f.provincia) = Lower(Strip(prov)))

\* lines 181-192: <<ok, list>>; not ok is "Fechas invalidas." and []
FiltrarEntre(lista, d1, d2) ==
    IF ~EsFecha(d1) \/ ~EsFecha(d2) THEN <<FALSE, <<>>>>
    ELSE <<TRUE, SelectSeq(lista, LAMBDA f : FechaLE(d1, f.fecha)
                                                /\ FechaLE(f.fecha, d2))>>

filtrar_por_fecha(lista, f1, f2) ==
    FiltrarEntre(lista, Strptime(Strip(f1), FALSE), Strptime(Strip(f2), FALSE))

\* lines 207-213: the rows written, but for the amount
exportar_csv(lista) ==
    [i \in 1..Len(lista) |->
        <<Strftime(lista[i].fecha), lista[i].numero, lista[i].provincia>>]

Pantalla(msgs, lista) == [msgs |-> msgs, lista |-> lista]

\* lines 157-166: the lines printed, but for the amount
mostrar_resultados(lista) ==
    [i \in 1..Len(lista) |->
        <<Strftime(lista[i].fecha), lista[i].numero, lista[i].provincia>>]

(***************************************************************************)
(* codigo_busca_prov.py: the files on disk and what the user types         *)
(***************************************************************************)
MaxFilasCsv == 2

SeqsHasta(S, n) == UNION {[1..k -> S] : k \in 0..n}

FechaTxt(d, m, a) == IntToStr(d) \o <<"/">> \o IntToStr(m) \o <<"/">> \o IntToStr(a)

\* a date in words
TresDeMayo == <<"3"," ","d","e"," ","m","a","y","o"," ","d","e"," ","2","0","2","5">>

Salta == <<"S","a","l","t","a">>

Jujuy == <<"J","u","j","u","y">>

\* "Córdoba" written in UTF-8 and read as latin1
CordobaLatin1 == <<"C","A_tilde","sup3","r","d","o","b","a">>

\* lines of an AFIP file: a good one, one with no dni and its date in words,
\* one with a date that is none, one with an amount that is none
LineasAfip ==
    { <<FechaTxt(14, 1, 2025), <<"A","1">>, <<"1">>, <<"1","0",",","5">>>>,
      <<TresDeMayo, <<"A","2">>, <<>>, <<" ","3">>>>,
      <<FechaTxt(32, 13, 2025), <<"A","3">>, <<"1">>, <<"5">>>>,
      <<FechaTxt(14, 1, 2025), <<"A","4">>, <<"1">>, <<"a","b","c">>>> }

\* lines of a MercadoLibre file: dni 1 with two provinces, and no dni
LineasMl ==
    { <<FechaTxt(1, 1, 2025), <<"1">>, <<"1">>, Salta>>,
      <<FechaTxt(1, 1, 2025), <<"1">>, <<"1">>, CordobaLatin1>>,
      <<FechaTxt(1, 1, 2025), <<"1">>, <<>>, Jujuy>> }

\* a file with or without its header line
ArchivosDe(header, lineas, n) ==
    SeqsHasta(lineas, n) \cup {<<header>> \o c : c \in SeqsHasta(lineas, n)}

\* the two files: the AFIP one with or without its header line, the
\* MercadoLibre one with it
Discos ==
    { [r \in {"lista_afip.csv", "lista_mercadolibre.csv"} |->
         IF r = "lista_afip.csv" THEN x[1] ELSE <<CamposMl>> \o x[2]] :
        x \in ArchivosDe(CamposAfip, LineasAfip, MaxFilasCsv)
              \X SeqsHasta(LineasMl, MaxFilasCsv) }

\* paths typed at the prompts of cargar_todo
RutasAfip == {"lista_afip.csv", "nada.csv"}

RutasMercado == {"lista_mercadolibre.csv"}

\* options typed at the prompt of the menu
Teclados ==
    { <<"1">>, <<"2">>, <<"3">>, <<"4">>, <<"5">>, <<" ","6"," ">>, <<"7">> }

ProvinciasPedidas == { <<"s","a","l","t","a">>, <<" ">> \o CORDOBA }

DesdePedidas == { FechaTxt(1, 2, 2025), <<"h","o","y">> }

HastaPedidas == { FechaTxt(31, 12, 2025) }

NombresPedidos == { <<"s","a","l">>, <<"s","a","l",".","c","s","v">> }

InitBusca ==
    /\ disco \in Discos
    /\ datos = <<>>
    /\ pc_busca = "menu"
    /\ op = <<>>
    /\ pantalla = Pantalla(<<>>, <<>>)
    /\ exportado = [nombre |-> "", filas |-> <<>>]
    /\ afip_raw = <<>>
    /\ ml_raw = <<>>
    /\ ml_provincias = <<>>
    /\ ReposoFecha
    /\ ReposoBalance
    /\ ReposoFacturas

\* lines 235-237 and cargar_todo
MenuCargar ==
    /\ pc_busca = "menu"
    /\ \E t \in Teclados :
         /\ Strip(t) = <<"1">>
         /\ op' = Strip(t)
    /\ \E afip_path \in RutasAfip, mercado_path \in RutasMercado :
         IF afip_path \notin DOMAIN disco \/ mercado_path \notin DOMAIN disco
         THEN /\ datos' = <<>>
              /\ afip_raw' = <<>>
              /\ ml_raw' = <<>>
              /\ ml_provincias' = <<>>
              /\ pantalla' = Pantalla(<<"Uno o ambos archivos no existen.",
                                        "Cargados registros.">>, <<>>)
         ELSE \E r \in {cargar_todo([afip |-> disco[afip_path],
                                     ml |-> disco[mercado_path]])} :
                /\ datos' = r.afip
                /\ afip_raw' = r.afip_raw
                /\ ml_raw' = r.ml_raw
                /\ ml_provincias' = r.ml_provincias
                /\ pantalla' = Pantalla(<<"Cargados registros.">>, <<>>)
    /\ UNCHANGED <<disco, pc_busca, exportado, varsFecha, varsBalance, varsFacturas>>

\* lines 239-243
MenuMostrar ==
    /\ pc_busca = "menu"
    /\ \E t \in Teclados :
         /\ Strip(t) = <<"2">>
         /\ op' = Strip(t)
    /\ pantalla' = IF datos # <<>>
                   THEN Pantalla(<<"--- FACTURAS OBTENIDAS ---">>,
                                 mostrar_resultados(datos))
                   ELSE Pantalla(<<"Primero cargue los archivos.">>, <<>>)
    /\ UNCHANGED <<disco, datos, pc_busca, exportado, afip_raw, ml_raw, ml_provincias,
                   varsFecha, varsBalance, varsFacturas>>

\* lines 245-249
MenuFiltrarProvincia ==
    /\ pc_busca = "menu"
    /\ \E t \in Teclados :
         /\ Strip(t) = <<"3">>
         /\ op' = Strip(t)
    /\ IF datos # <<>>
       THEN \E prov \in ProvinciasPedidas :
              pantalla' = Pantalla(<<"--- FACTURAS OBTENIDAS ---">>,
                                   mostrar_resultados(filtrar_por_provincia(datos, prov)))
       ELSE pantalla' = Pantalla(<<"Primero cargue los archivos.">>, <<>>)
    /\ UNCHANGED <<disco, datos, pc_busca, exportado, afip_raw, ml_raw, ml_provincias,
                   varsFecha, varsBalance, varsFacturas>>

\* lines 251-255
MenuFiltrarFecha ==
    /\ pc_busca = "menu"
    /\ \E t \in Teclados :
         /\ Strip(t) = <<"4">>
         /\ op' = Strip(t)
    /\ IF datos # <<>>
       THEN \E f1 \in DesdePedidas, f2 \in HastaPedidas :
              \E r \in {filtrar_por_fecha(datos, f1, f2)} :
                pantalla' =
                  Pantalla(IF r[1] THEN <<"--- FACTURAS OBTENIDAS ---">>
                           ELSE <<"Fechas invalidas.", "--- FACTURAS OBTENIDAS ---">>,
                           mostrar_resultados(r[2]))
       ELSE pantalla' = Pantalla(<<"Primero cargue los archivos.">>, <<>>)
    /\ UNCHANGED <<disco, datos, pc_busca, exportado, afip_raw, ml_raw, ml_provincias,
                   varsFecha, varsBalance, varsFacturas>>

\* lines 257-261
MenuExportar ==
    /\ pc_busca = "menu"
    /\ \E t \in Teclados :
         /\ Strip(t) = <<"5">>
         /\ op' = Strip(t)
    /\ IF datos # <<>>
       THEN \E nombre \in NombresPedidos :
              LET n == Strip(nombre)
                  csv == <<".","c","s","v">>
                  con == IF Len(n) >= Len(csv) /\ StartsAt(n, Len(n) - Len(csv) + 1, csv)
                         THEN n ELSE n \o csv
              IN  /\ exportado' = [nombre |-> con, filas |-> exportar_csv(datos)]
                  /\ pantalla' = Pantalla(<<"Archivo generado">>, <<>>)
       ELSE /\ pantalla' = Pantalla(<<"No hay datos para exportar.">>, <<>>)
            /\ UNCHANGED exportado
    /\ UNCHANGED <<disco, datos, pc_busca, afip_raw, ml_raw, ml_provincias,
                   varsFecha, varsBalance, varsFacturas>>

\* lines 263-264
MenuSalir ==
    /\ pc_busca = "menu"
    /\ \E t \in Teclados :
         /\ Strip(t) = <<"6">>
         /\ op' = Strip(t)
    /\ pc_busca' = "fin"
    /\ UNCHANGED <<disco, datos, pantalla, exportado, afip_raw, ml_raw, ml_provincias,
                   varsFecha, varsBalance, varsFacturas>>

\* lines 265-266
MenuInvalida ==
    /\ pc_busca = "menu"
    /\ \E t \in Teclados :
         /\ Strip(t) \notin {<<"1">>, <<"2">>, <<"3">>, <<"4">>, <<"5">>, <<"6">>}
         /\ op' = Strip(t)
    /\ pantalla' = Pantalla(<<"Opcion invalida.">>, <<>>)
    /\ UNCHANGED <<disco, datos, pc_busca, exportado, afip_raw, ml_raw, ml_provincias,
                   varsFecha, varsBalance, varsFacturas>>

NextBusca ==
    \/ MenuCargar
    \/ MenuMostrar
    \/ MenuFiltrarProvincia
    \/ MenuFiltrarFecha
    \/ MenuExportar
    \/ MenuSalir
    \/ MenuInvalida

SpecBusca == InitBusca /\ [][NextBusca]_vars

(***************************************************************************)
(* cargar_todo: the lookup and the join                                    *)
(***************************************************************************)
\* the rows of the MercadoLibre file, as read, that bear the key k
FilasConClave(k) == {i \in 1..Len(ml_raw) : Strip(ml_raw[i][F_dni]) = k}

\* the province a row of the MercadoLibre file gives
ProvinciaDeFila(i) == Strip(Utf8Ignore(ml_raw[i][F_provincia], 1))

\* C4: the lookup cargar_todo has built holds exactly the non-empty keys of
\* the rows read, and for each of them the province of the last row that bears
\* it, never that of an earlier row; a row with an empty key adds no entry.
C4_LastWriteWins ==
    /\ DOMAIN ml_provincias =
         {Strip(ml_raw[i][F_dni]) : i \in 1..Len(ml_raw)} \ {<<>>}
    /\ \A k \in DOMAIN ml_provincias :
         ml_provincias[k] = ProvinciaDeFila(SetMax(FilasConClave(k)))

\* C4: a file has been loaded in which one dni comes in two rows with two
\* different provinces, and the lookup holds the province of the later one.
C4_Witness ==
    /\ op = <<"1">>
    /\ \E k \in DOMAIN ml_provincias :
         /\ Cardinality(FilasConClave(k)) = 2
         /\ ProvinciaDeFila(SetMin(FilasConClave(k)))
              # ProvinciaDeFila(SetMax(FilasConClave(k)))
         /\ ml_provincias[k] = ProvinciaDeFila(SetMax(FilasConClave(k)))

\* C5: every record of the list cargar_todo returned has a province that is
\* not None: the one the lookup holds for its dni when the dni is a key of the
\* lookup, and "Córdoba" when it is not, the record having no dni included.
C5_EveryRecordHasRegion ==
    \A i \in 1..Len(datos) :
        /\ datos[i].provincia # None
        /\ datos[i].dni \in DOMAIN ml_provincias
             => datos[i].provincia = ml_provincias[datos[i].dni]
        /\ datos[i].dni \notin DOMAIN ml_provincias
             => datos[i].provincia = CORDOBA

\* C5: a list has been loaded with a record whose dni is in the lookup and has
\* the province found there, and a record with no dni that has "Córdoba".
C5_Witness ==
    /\ op = <<"1">>
    /\ \E i \in 1..Len(datos) :
         /\ datos[i].dni \in DOMAIN ml_provincias
         /\ datos[i].provincia = ml_provincias[datos[i].dni]
         /\ datos[i].provincia # CORDOBA
    /\ \E i \in 1..Len(datos) :
         /\ datos[i].dni = None
         /\ datos[i].provincia = CORDOBA

(***************************************************************************)
(* numero_factura_provincia.py                                             *)
(***************************************************************************)
\* what a call gives: its value, or the exception that left it and where
Bien(v) == [ok |-> TRUE, v |-> v, error |-> SinError]

Falla(k, en) == [ok |-> FALSE, v |-> <<>>, error |-> [k |-> k, en |-> en]]

\* line 90: the keys of a row, lower-cased
ClavesDe(header) == {Lower(header[i]) : i \in 1..Len(header)}

\* lines 88-90: the name of the header whose field a lower-cased key ends up
\* with: the one that csv.DictReader put last in the row
NombreDe(header, k) ==
    header[SetMax({i \in 1..Len(header) :
                      /\ Lower(header[i]) = k
                      /\ \A j \in 1..(i - 1) : header[j] # header[i]})]

\* lines 88-91: the row of a line, None for the fields a short line lacks
FilaDict(header, linea) ==
    [k \in ClavesDe(header) |-> CampoConHeader(header, linea, NombreDe(header, k))]

\* lines 87-91: the rows of the lines that follow the header; a line longer
\* than the header has its key None, and None.lower() raises
FilasDe(header, cuerpo) ==
    IF \E i \in 1..Len(cuerpo) : Len(cuerpo[i]) > Len(header)
    THEN Falla("AttributeError", "cargar_csv")
    ELSE Bien([i \in 1..Len(cuerpo) |-> FilaDict(header, cuerpo[i])])

SinBlancos(archivo) == SelectSeq(archivo, LAMBDA l : l # <<>>)

\* lines 85-92
cargar_csv(archivo) ==
    IF SinBlancos(archivo) = <<>> THEN Bien(<<>>)
    ELSE FilasDe(Head(SinBlancos(archivo)), Tail(SinBlancos(archivo)))

F_cordoba == <<"c","o","r","d","o","b","a">>

\* r.get(k, defecto)
Get(r, k, defecto) == IF k \in DOMAIN r THEN r[k] ELSE defecto

\* float(x) of a text or None
FloatDeCampo(x) ==
    IF x = None THEN Falla("TypeError", "procesar_datos")
    ELSE IF Float(x) = <<>> THEN Falla("ValueError", "procesar_datos")
    ELSE Bien(Float(x)[1])

\* lines 103-109 and 112-118, the fields of the row being there: the fields of
\* the record are computed in the order written
RegistroDe(fecha, numero_factura, dni, provincia, valor) ==
    IF fecha.k = "ValueError" THEN Falla("ValueError", "procesar_datos")
    ELSE IF ~valor.ok THEN valor
    ELSE Bien([fecha |-> fecha, numero_factura |-> numero_factura, dni |-> dni,
               provincia |-> provincia, valor_total |-> valor.v])

\* lines 103-109
RegistroMercado(r) ==
    IF {F_fecha, F_dni, F_provincia, F_valor_total} \subseteq DOMAIN r
    THEN RegistroDe(parse_fecha_universal(r[F_fecha]), Get(r, F_numero_factura, <<>>),
                    r[F_dni], r[F_provincia], FloatDeCampo(r[F_valor_total]))
    ELSE Falla("KeyError", "procesar_datos")

\* lines 112-118
RegistroAfipNf(r) ==
    IF {F_fecha, F_numero_factura, F_dni, F_valor_total} \subseteq DOMAIN r
    THEN RegistroDe(parse_fecha_universal(r[F_fecha]), r[F_numero_factura],
                    r[F_dni], Get(r, F_provincia, F_cordoba),
                    FloatDeCampo(r[F_valor_total]))
    ELSE Falla("KeyError", "procesar_datos")

\* the list after one more append, or the exception that has left
Agregar(antes, reg) ==
    IF ~antes.ok THEN antes
    ELSE IF ~reg.ok THEN reg
    ELSE Bien(Append(antes.v, reg.v))

\* lines 102-109 and 111-118: the loops
RECURSIVE Unificar(_, _, _)
Unificar(antes, rows, esAfip) ==
    IF rows = <<>> \/ ~antes.ok THEN antes
    ELSE Unificar(Agregar(antes, IF esAfip THEN RegistroAfipNf(Head(rows))
                                 ELSE RegistroMercado(Head(rows))),
                  Tail(rows), esAfip)

\* lines 99-120
procesar_datos(mercado, afip) ==
    Unificar(Unificar(Bien(<<>>), mercado, FALSE), afip, TRUE)

\* line 130: the comparison d <= r["fecha"] <= h made of one record raises
ComparaConNone(r, d, h) ==
    /\ EsFecha(r.fecha)
    /\ \/ ~EsFecha(d)
       \/ FechaLE(d, r.fecha) /\ ~EsFecha(h)

\* line 130, the dates being read
FiltrarRango(lista, d, h) ==
    IF d.k = "ValueError" \/ h.k = "ValueError"
    THEN Falla("ValueError", "filtrar_fecha")
    ELSE IF \E i \in 1..Len(lista) : ComparaConNone(lista[i], d, h)
    THEN Falla("TypeError", "filtrar_fecha")
    ELSE Bien(SelectSeq(lista, LAMBDA r : /\ EsFecha(r.fecha)
                                          /\ FechaLE(d, r.fecha)
                                          /\ FechaLE(r.fecha, h)))

\* lines 127-130
filtrar_fecha(lista, f_desde, f_hasta) ==
    FiltrarRango(lista, parse_fecha_universal(f_desde), parse_fecha_universal(f_hasta))

\* lines 132-133
filtrar_provincia(lista, prov) ==
    IF \E i \in 1..Len(lista) : lista[i].provincia = None
    THEN Falla("AttributeError", "filtrar_provincia")
    ELSE Bien(SelectSeq(lista, LAMBDA r : Lower(r.provincia) = Lower(prov)))

\* lines 151-154
CargarYProcesar(m, a) ==
    IF ~m.ok THEN m
    ELSE IF ~a.ok THEN a
    ELSE procesar_datos(m.v, a.v)

\* lines 166-173: <<datos_filtrados, the exception>> after the two filters
FiltrarLuego(antes, porFecha, prov) ==
    IF ~porFecha.ok THEN <<antes, porFecha.error>>
    ELSE IF ~filtrar_provincia(porFecha.v, prov).ok
    THEN <<porFecha.v, filtrar_provincia(porFecha.v, prov).error>>
    ELSE <<filtrar_provincia(porFecha.v, prov).v, SinError>>

(***************************************************************************)
(* numero_factura_provincia.py: the files on disk and what the user types  *)
(***************************************************************************)
MaxFilasNf == 2

F_Fecha == <<"F","e","c","h","a">>

HeaderMercado == <<F_Fecha, F_valor_total, F_dni, F_provincia>>

HeaderAfip == <<F_fecha, F_numero_factura, F_dni, F_valor_total>>

\* 2025-01-14
FechaIso == <<"2","0","2","5","-","0","1","-","1","4">>

\* lines of lista_mercadolibre.csv: a good one, one whose date is no date, one
\* whose amount is no number, one with no province
LineasMercadoNf ==
    { <<FechaIso, <<"1","0",".","5">>, <<"1">>, Salta>>,
      <<<<"a","y","e","r">>, <<"7">>, <<"2">>, F_cordoba>>,
      <<FechaTxt(14, 1, 2025), <<"a","b","c">>, <<"1">>, Salta>>,
      <<FechaTxt(14, 2, 2025), <<"5">>, <<"3">>>> }

\* lines of lista_afip.csv: a good one with its hour, one with a year of two
\* digits above 31, one with a decimal comma, one with a field too many
LineasAfipNf ==
    { <<FechaTxt(14, 1, 2025) \o <<" ","0","8",":","2","3">>, <<"A","1">>, <<"1">>,
        <<"7">>>>,
      <<FechaTxt(14, 1, 45), <<"A","2">>, <<"2">>, <<"7">>>>,
      <<FechaTxt(14, 1, 2025), <<"A","3">>, <<"1">>, <<"1","0",",","5">>>>,
      <<FechaTxt(14, 1, 2025), <<"A","4">>, <<"1">>, <<"7">>, <<"x">>>> }

ArchivosNf ==
    { [mercado |-> <<HeaderMercado>> \o x[1], afip |-> <<HeaderAfip>> \o x[2]] :
        x \in SeqsHasta(LineasMercadoNf, MaxFilasNf)
              \X SeqsHasta(LineasAfipNf, MaxFilasNf) }

\* what is typed at "Opción: "
TecladosNf == { <<"1">>, <<"2">>, <<"3">>, <<" ","3">>, <<"9">>, <<>> }

DesdeNf == { FechaTxt(1, 1, 2025), FechaTxt(1, 2, 2025), <<>>, FechaTxt(32, 13, 2025) }

HastaNf == { FechaTxt(31, 12, 2025), <<"h","o","y">> }

ProvinciasNf == { <<>>, <<"s","a","l","t","a">> }

InitFacturas ==
    /\ archivos \in ArchivosNf
    /\ unificados = <<>>
    /\ datos_filtrados = <<>>
    /\ op_nf = <<>>
    /\ desde = <<>>
    /\ hasta = <<>>
    /\ impreso = Pantalla(<<>>, <<>>)
    /\ pc_nf = "inicio"
    /\ error_nf = SinError
    /\ ReposoFecha
    /\ ReposoBalance
    /\ ReposoBusca

\* lines 151-155
Cargar ==
    /\ pc_nf = "inicio"
    /\ \E p \in {CargarYProcesar(cargar_csv(archivos.mercado),
                                 cargar_csv(archivos.afip))} :
         IF p.ok
         THEN /\ unificados' = p.v
              /\ datos_filtrados' = p.v
              /\ pc_nf' = "menu"
              /\ UNCHANGED error_nf
         ELSE /\ pc_nf' = "traceback"
              /\ error_nf' = p.error
              /\ UNCHANGED <<unificados, datos_filtrados>>
    /\ UNCHANGED <<archivos, op_nf, desde, hasta, impreso,
                   varsFecha, varsBalance, varsBusca>>

\* lines 161-174
OpFiltrar ==
    /\ pc_nf = "menu"
    /\ \E t \in TecladosNf :
         /\ t = <<"1">>
         /\ op_nf' = t
    /\ \E f_desde \in DesdeNf, f_hasta \in HastaNf, prov \in ProvinciasNf :
         /\ desde' = f_desde
         /\ hasta' = f_hasta
         /\ \E r \in {FiltrarLuego(datos_filtrados,
                                   filtrar_fecha(unificados, f_desde, f_hasta),
                                   IF Strip(prov) = <<>> THEN F_cordoba ELSE prov)} :
              /\ datos_filtrados' = r[1]
              /\ error_nf' = r[2]
              /\ IF r[2] = SinError
                 THEN /\ impreso' = Pantalla(<<"Filtros aplicados correctamente.">>, <<>>)
                      /\ UNCHANGED pc_nf
                 ELSE /\ pc_nf' = "traceback"
                      /\ UNCHANGED impreso
    /\ UNCHANGED <<archivos, unificados, varsFecha, varsBalance, varsBusca>>

\* lines 176-180
OpVistaPrevia ==
    /\ pc_nf = "menu"
    /\ \E t \in TecladosNf :
         /\ t = <<"2">>
         /\ op_nf' = t
    /\ impreso' = Pantalla(<<"===== VISTA PREVIA =====">>,
                           SubSeq(datos_filtrados, 1,
                                  SetMin({20, Len(datos_filtrados)})))
    /\ UNCHANGED <<archivos, unificados, datos_filtrados, desde, hasta, pc_nf, error_nf,
                   varsFecha, varsBalance, varsBusca>>

\* lines 182-184
OpSalir ==
    /\ pc_nf = "menu"
    /\ \E t \in TecladosNf :
         /\ t = <<"3">>
         /\ op_nf' = t
    /\ impreso' = Pantalla(<<"Saliendo...">>, <<>>)
    /\ pc_nf' = "fin"
    /\ UNCHANGED <<archivos, unificados, datos_filtrados, desde, hasta, error_nf,
                   varsFecha, varsBalance, varsBusca>>

\* lines 186-187
OpInvalida ==
    /\ pc_nf = "menu"
    /\ \E t \in TecladosNf :
         /\ t \notin {<<"1">>, <<"2">>, <<"3">>}
         /\ op_nf' = t
    /\ impreso' = Pantalla(<<"Opcion invalida.">>, <<>>)
    /\ UNCHANGED <<archivos, unificados, datos_filtrados, desde, hasta, pc_nf, error_nf,
                   varsFecha, varsBalance, varsBusca>>

NextFacturas ==
    \/ Cargar
    \/ OpFiltrar
    \/ OpVistaPrevia
    \/ OpSalir
    \/ OpInvalida

SpecFacturas == InitFacturas /\ [][NextFacturas]_vars

(***************************************************************************)
(* Properties of numero_factura_provincia.py                               *)
(***************************************************************************)
\* C7: once the rows of the two files have been loaded and unified, no row
\* whose date or amount could not be parsed has aborted the batch: no
\* ValueError has left procesar_datos, and the program has reached its menu.
C7_Original ==
    pc_nf # "inicio" =>
        ~(pc_nf = "traceback" /\ error_nf = [k |-> "ValueError", en |-> "procesar_datos"])

\* the range typed last at option 1 has a date that is no date
RangoIlegible ==
    \/ ~EsFecha(parse_fecha_universal(desde))
    \/ ~EsFecha(parse_fecha_universal(hasta))

\* C8: after option 1 with a date range that cannot be parsed, the error has
\* been absorbed: the program is at its menu again with the loaded list as it
\* was, and no exception has ended it.
C8_Original ==
    (op_nf = <<"1">> /\ RangoIlegible) =>
        (pc_nf = "menu" /\ error_nf = SinError)

\* C9: the menu loop, once entered, has stopped only if the option read last
\* is the exit option 3.
C9_Original ==
    (pc_nf \in {"fin", "traceback"} /\ error_nf.en \notin {"cargar_csv", "procesar_datos"})
        => op_nf = <<"3">>

====
